---- MODULE Spec2Model ----
(***************************************************************************)
(* Model of the frizz agent step / tool-dispatch protocol.                 *)
(*                                                                         *)
(*   Spec          PatchedAgent.step (examples/patched_agent_example.py)   *)
(*   SpecToolCall  patched_llm_tool_call (frizz/_internal/patched_tools.py)*)
(*   SpecRegistry  PatchedAgent.tools_by_name and its lookup               *)
(*   SpecTool      Tool, tool (frizz/_internal/tools.py)                   *)
(*   SpecFair      Spec with collaborators that answer                     *)
(*   SpecSteps     step calls of two tasks on two agents, interleaved      *)
(*   SpecShared    step calls of two tasks on one agent, interleaved       *)
(*   SpecGemini    DirectGeminiAgent.send_message                          *)
(*                                                                         *)
(* The machines share one variable list; each specification moves its      *)
(* own variables and leaves the others at their initial value.             *)
(***************************************************************************)
EXTENDS Integers, Sequences, FiniteSets, TLC

VARIABLES
    \* ---- PatchedAgent ----
    tools,              \* self._tools
    context,            \* self._context
    conversation,       \* self._conversation: [system, turns]
    pc,                 \* position of the running step call
    saved,              \* snapshot held by conversation.session()
    user_message,       \* argument of the running step
    agent_message,      \* local: result of llm_structured
    chosen_tool,        \* local: tools_by_name.get(...)
    parameters_response,\* local: <<>> or <<what llm_tool_call returned>>
    result,             \* what the step call returned or raised
    stepNo,             \* number of step calls started so far
    pre,                \* history: the conversation when the call started
    handlerInvoked,     \* history: the handler was awaited in this call
    handlerValue,       \* history: the value the handler returned
    toolSteps,          \* history: calls whose decision selected a registered tool
    modelRequests,      \* history: the model requests the running call has made
    \* ---- patched_llm_tool_call ----
    tc_pc, tc_tools, tc_tool_choice, tc_messages, tc_router, tc_response,
    tc_result, tc_requests,
    \* ---- registry ----
    reg_tools, reg_query, reg_result,
    reg_error,          \* what building the registry raised
    \* ---- Tool (frizz/_internal/tools.py) ----
    tl_pc,              \* "start" before tool(fn), "registered" after
    tl_fn,              \* the handler
    tl_tool,            \* <<>> or <<the Tool descriptor>>
    tl_registered,      \* what tool(fn) returned or raised
    tl_args,            \* <<>> or <<what the last __call__ was given>>
    tl_received,        \* what the handler received, call by call
    tl_out,             \* outcome of the last operation on the descriptor
    \* ---- concurrent step calls ----
    st_tools,           \* the tool list the agents were constructed with
    st_self,            \* per task: the agent its step calls are made on
    st_conversation,    \* per agent: self._conversation
    st_frame,           \* per task: the locals of its step call
    st_alone,           \* per task, history: what its calls give when run alone
    st_overlap,         \* history: two calls on one agent have been running at once
    \* ---- DirectGeminiAgent ----
    g_pc,               \* position of the running send_message call
    g_tools,            \* self.tools
    g_history,          \* self.conversation_history
    g_response,         \* local: what chat.send_message returned
    g_index,            \* local: the part whose handler is awaited
    g_tool_calls,       \* local: tool_calls
    g_tool_results,     \* local: tool_results
    g_result,           \* what the send_message call returned or raised
    g_sends,            \* number of send_message calls started so far
    g_pre               \* history: conversation_history when the call started

agentVars == <<tools, context, conversation, pc, saved, user_message, agent_message,
               chosen_tool, parameters_response, result, stepNo, pre,
               handlerInvoked, handlerValue, toolSteps, modelRequests>>
tcVars == <<tc_pc, tc_tools, tc_tool_choice, tc_messages, tc_router, tc_response,
            tc_result, tc_requests>>
regVars == <<reg_tools, reg_query, reg_result, reg_error>>
toolVars == <<tl_pc, tl_fn, tl_tool, tl_registered, tl_args, tl_received, tl_out>>
stepsVars == <<st_tools, st_self, st_conversation, st_frame, st_alone, st_overlap>>
gemVars == <<g_pc, g_tools, g_history, g_response, g_index, g_tool_calls, g_tool_results,
             g_result, g_sends, g_pre>>
vars == <<agentVars, tcVars, regVars, toolVars, stepsVars, gemVars>>

None == "None"

\* ---------------------------------------------------------------------------
\* Bounds
\* ---------------------------------------------------------------------------
MaxSteps == 2
MaxTools == 2
MaxMessages == 2
MaxInvocations == 2

\* Step calls made by one task.
MaxCalls == 2

\* Step calls made by a task that shares its agent with the other task.
MaxSharedCalls == 1

\* Parts of one Gemini response, and send_message calls.
MaxParts == 2
MaxSends == 2

\* ---------------------------------------------------------------------------
\* Tools and their parameter models
\* ---------------------------------------------------------------------------
\* EchoParams: message is required.
EchoParams == [name |-> "EchoParams", fields |-> {"message"}, required |-> {"message"}]

\* JokeParams: topic is required, safe_mode has a default.
JokeParams == [name |-> "JokeParams", fields |-> {"topic", "safe_mode"},
               required |-> {"topic"}]

echo_instance == [name |-> "echo", parameters_model |-> EchoParams]

tell_joke == [name |-> "tell_joke", parameters_model |-> JokeParams]

\* Names a model decision may carry: the registered ones and one nobody registers.
ToolNames == {"echo", "tell_joke", "calculator"}

ArgFields == {"message", "topic"}

\* A decoded value either fits the declared type of its field or does not.
ValueKinds == {"fits", "misfit"}

\* Argument payloads: a dict from some field names to values.
Payloads == UNION {[S -> ValueKinds] : S \in SUBSET ArgFields}

\* Mutant: required fields are not checked.
model_validate_no_required(parameters_model, arguments) ==
    \A f \in (DOMAIN arguments) \cap parameters_model.fields : arguments[f] = "fits"

\* pydantic model_validate: every required field present, every declared field
\* that is present well-typed; undeclared keys are ignored.
model_validate(parameters_model, arguments) ==
    /\ parameters_model.required \subseteq DOMAIN arguments
    /\ \A f \in (DOMAIN arguments) \cap parameters_model.fields : arguments[f] = "fits"

\* ---------------------------------------------------------------------------
\* Conversation
\* ---------------------------------------------------------------------------
UserContents == {"Hello, world!"}
Texts == {"hi", ""}
HandlerValues == {"Echo: x"}

Turn(kind, type, content, step) ==
    [kind |-> kind, type |-> type, content |-> content, step |-> step]

NewConversation == [system |-> None, turns |-> <<>>]

set_system_message(conv, message) == [conv EXCEPT !.system = message]

add_user_message(conv, message) == [conv EXCEPT !.turns = Append(@, message)]

\* Mutant: the assistant message is not recorded.
add_assistant_message_dropped(conv, message) == conv

add_assistant_message(conv, message) == [conv EXCEPT !.turns = Append(@, message)]

\* conversation.session(): entering takes a snapshot ...
session_enter(conv) == conv

\* Mutant: leaving through an exception keeps what the step appended.
session_rollback_kept(snapshot, conv) == conv

\* Mutant: leaving through an exception empties the conversation.
session_rollback_emptied(snapshot, conv) == NewConversation

\* ... and leaving through an exception puts the snapshot back.
session_rollback(snapshot, conv) == snapshot

\* ---------------------------------------------------------------------------
\* PatchedAgent
\* ---------------------------------------------------------------------------
RECURSIVE dict_of(_, _)
\* {tool.name: tool for tool in tools}: a later entry replaces an earlier one.
dict_of(ts, acc) ==
    IF ts = <<>> THEN acc
    ELSE dict_of(Tail(ts),
                 [n \in (DOMAIN acc) \cup {Head(ts).name} |->
                     IF n = Head(ts).name THEN Head(ts) ELSE acc[n]])

\* Mutant: the first tool of the list is skipped.
tools_by_name_skip_first(ts) == IF ts = <<>> THEN <<>> ELSE dict_of(Tail(ts), <<>>)

tools_by_name(ts) == dict_of(ts, <<>>)

\* Python's None where a Tool is expected.
NoTool == [name |-> None, parameters_model |-> [name |-> None, fields |-> {}, required |-> {}]]

\* Mutant: a missing name yields some registered tool instead of None.
dict_get_some(d, name) ==
    IF name \in DOMAIN d THEN d[name]
    ELSE IF DOMAIN d = {} THEN NoTool ELSE d[CHOOSE n \in DOMAIN d : TRUE]

\* dict.get(name)
dict_get(d, name) == IF name \in DOMAIN d THEN d[name] ELSE NoTool

\* Errors are [type, msg, cause]: the cause is what the message interpolates.
Error(type, msg, cause) == [type |-> type, msg |-> msg, cause |-> cause]

FrizzError(msg, cause) == Error("FrizzError", msg, cause)

\* What a handler may raise (calculator: ValueError; a call the Tool rejects: TypeError).
HandlerExceptions == {"ValueError", "TypeError"}

ModelErrors == {"ModelUnavailableError", "RateLimitExceededError", "NoResponseError"}

ToolCallErrors == ModelErrors \cup {"ToolCallError"}

\* Unset locals of a step call, by type.
NoTurn == [kind |-> None, type |-> None, content |-> None, step |-> 0]

NoAgentMessage == [text |-> "unset", chosen_tool_name |-> "unset"]

NoError == [type |-> None, msg |-> None, cause |-> None]

StepResult(assistant_message, tool_message) ==
    [kind |-> "returned", assistant_message |-> assistant_message,
     tool_message |-> tool_message, error |-> NoError]

Raised(error) ==
    [kind |-> "raised", assistant_message |-> NoTurn, tool_message |-> None,
     error |-> error]

NoResult == [kind |-> "none", assistant_message |-> NoTurn, tool_message |-> None,
             error |-> NoError]

AgentToolLists == {<<echo_instance>>, <<echo_instance, tell_joke>>}

SystemMessages == {None, "You are a helpful assistant."}

\* conversation_dump: absent, or the dump of one earlier exchange.
ConversationDumps ==
    {None,
     <<Turn("user", "LLMUserMessage", "Hello, world!", 0),
       Turn("assistant", "LLMAssistantMessage", "hi", 0)>>}

\* Conversation.load(dump=...)
load(dump) == [system |-> None, turns |-> dump]

AgentInit ==
    /\ tools \in AgentToolLists
    /\ context = "SimpleContext"
    /\ \E sm \in SystemMessages, dump \in ConversationDumps :
          LET loaded == IF dump # None THEN load(dump) ELSE NewConversation
          IN  conversation = IF sm # None THEN set_system_message(loaded, sm)
                             ELSE loaded
    /\ pc = "idle"
    /\ saved = NewConversation
    /\ user_message = NoTurn
    /\ agent_message = NoAgentMessage
    /\ chosen_tool = NoTool
    /\ parameters_response = <<>>
    /\ result = NoResult
    /\ stepNo = 0
    /\ pre = NewConversation
    /\ handlerInvoked = FALSE
    /\ handlerValue = None
    /\ toolSteps = {}
    /\ modelRequests = <<>>

AgentIdle ==
    /\ tools = <<>>
    /\ context = None
    /\ conversation = NewConversation
    /\ pc = "off"
    /\ saved = NewConversation
    /\ user_message = NoTurn
    /\ agent_message = NoAgentMessage
    /\ chosen_tool = NoTool
    /\ parameters_response = <<>>
    /\ result = NoResult
    /\ stepNo = 0
    /\ pre = NewConversation
    /\ handlerInvoked = FALSE
    /\ handlerValue = None
    /\ toolSteps = {}
    /\ modelRequests = <<>>

\* Mutant: the exception is swallowed and the call stays where it is.
Raise_swallowed(conv, error) ==
    /\ conversation' = session_rollback(saved, conv)
    /\ result' = result
    /\ pc' = pc

\* The step leaves through an exception: the session puts its snapshot back and
\* the error reaches the caller.
Raise(conv, error) ==
    /\ conversation' = session_rollback(saved, conv)
    /\ result' = Raised(error)
    /\ pc' = "done"

\* A model request: the function awaited and the conversation it renders.
request(log, fn, conv) == Append(log, [fn |-> fn, messages |-> conv])

\* step(user_message, router) up to the await of llm_structured.
StepCall(content) ==
    /\ pc \in {"idle", "done"}
    /\ stepNo < MaxSteps
    /\ stepNo' = stepNo + 1
    /\ pre' = conversation
    /\ saved' = session_enter(conversation)
    /\ user_message' = Turn("user", "LLMUserMessage", content, stepNo + 1)
    /\ conversation' = add_user_message(conversation, user_message')
    /\ agent_message' = NoAgentMessage
    /\ chosen_tool' = NoTool
    /\ parameters_response' = <<>>
    /\ result' = NoResult
    /\ handlerInvoked' = FALSE
    /\ handlerValue' = None
    /\ pc' = "llm_structured"
    /\ modelRequests' = request(<<>>, "llm_structured", conversation')
    /\ UNCHANGED <<tools, context, toolSteps>>
    /\ UNCHANGED <<tcVars, regVars, toolVars, stepsVars, gemVars>>

\* llm_structured raises: the error leaves step through the session.
DecisionRaises(err) ==
    /\ pc = "llm_structured"
    /\ Raise(conversation, Error(err, "", None))
    /\ UNCHANGED <<tools, context, saved, user_message, agent_message, chosen_tool,
                   parameters_response, stepNo, pre, handlerInvoked, handlerValue,
                   toolSteps, modelRequests>>
    /\ UNCHANGED <<tcVars, regVars, toolVars, stepsVars, gemVars>>

\* The assistant message step builds from the decision's text.
assistant_message_of(text, step) == Turn("assistant", "LLMSystemMessage", text, step)

\* llm_structured returns a decision that names no tool.
DecisionNoTool(text) ==
    /\ pc = "llm_structured"
    /\ agent_message' = [text |-> text, chosen_tool_name |-> None]
    /\ conversation' = add_assistant_message(conversation,
                                             assistant_message_of(text, stepNo))
    /\ result' = StepResult(assistant_message_of(text, stepNo), None)
    /\ pc' = "done"
    /\ UNCHANGED <<tools, context, saved, user_message, chosen_tool,
                   parameters_response, stepNo, pre, handlerInvoked, handlerValue,
                   toolSteps, modelRequests>>
    /\ UNCHANGED <<tcVars, regVars, toolVars, stepsVars, gemVars>>

\* llm_structured returns a decision naming a tool that tools_by_name lacks.
DecisionUnknownTool(text, name) ==
    /\ pc = "llm_structured"
    /\ dict_get(tools_by_name(tools), name) = NoTool
    /\ agent_message' = [text |-> text, chosen_tool_name |-> name]
    /\ Raise(add_assistant_message(conversation, assistant_message_of(text, stepNo)),
             FrizzError("Tool not found", name))
    /\ UNCHANGED <<tools, context, saved, user_message, chosen_tool,
                   parameters_response, stepNo, pre, handlerInvoked, handlerValue,
                   toolSteps, modelRequests>>
    /\ UNCHANGED <<tcVars, regVars, toolVars, stepsVars, gemVars>>

\* llm_structured returns a decision naming a registered tool: step goes on to
\* await llm_tool_call for the parameters.
DecisionTool(text, name) ==
    /\ pc = "llm_structured"
    /\ dict_get(tools_by_name(tools), name) # NoTool
    /\ agent_message' = [text |-> text, chosen_tool_name |-> name]
    /\ conversation' = add_assistant_message(conversation,
                                             assistant_message_of(text, stepNo))
    /\ chosen_tool' = dict_get(tools_by_name(tools), name)
    /\ toolSteps' = toolSteps \cup {stepNo}
    /\ modelRequests' = request(modelRequests, "llm_tool_call", conversation')
    /\ pc' = "llm_tool_call"
    /\ UNCHANGED <<tools, context, saved, user_message, parameters_response, result,
                   stepNo, pre, handlerInvoked, handlerValue>>
    /\ UNCHANGED <<tcVars, regVars, toolVars, stepsVars, gemVars>>

\* llm_tool_call raises: wrapped into FrizzError.
ParametersRaise(err) ==
    /\ pc = "llm_tool_call"
    /\ Raise(conversation, FrizzError("Error with tool parameters", err))
    /\ UNCHANGED <<tools, context, saved, user_message, agent_message, chosen_tool,
                   parameters_response, stepNo, pre, handlerInvoked, handlerValue,
                   toolSteps, modelRequests>>
    /\ UNCHANGED <<tcVars, regVars, toolVars, stepsVars, gemVars>>

\* llm_tool_call returns arguments that model_validate rejects.
ParametersInvalid(arguments) ==
    /\ pc = "llm_tool_call"
    /\ ~model_validate(chosen_tool.parameters_model, arguments)
    /\ parameters_response' = <<[arguments |-> arguments]>>
    /\ Raise(conversation, FrizzError("Error with tool parameters", "ValidationError"))
    /\ UNCHANGED <<tools, context, saved, user_message, agent_message, chosen_tool,
                   stepNo, pre, handlerInvoked, handlerValue, toolSteps,
                   modelRequests>>
    /\ UNCHANGED <<tcVars, regVars, toolVars, stepsVars, gemVars>>

\* llm_tool_call returns arguments that validate: step awaits the handler.
ParametersValid(arguments) ==
    /\ pc = "llm_tool_call"
    /\ model_validate(chosen_tool.parameters_model, arguments)
    /\ parameters_response' = <<[arguments |-> arguments]>>
    /\ handlerInvoked' = TRUE
    /\ pc' = "chosen_tool"
    /\ UNCHANGED <<tools, context, conversation, saved, user_message, agent_message,
                   chosen_tool, result, stepNo, pre, handlerValue, toolSteps,
                   modelRequests>>
    /\ UNCHANGED <<tcVars, regVars, toolVars, stepsVars, gemVars>>

\* The handler raises: wrapped into FrizzError.
HandlerRaises(exc) ==
    /\ pc = "chosen_tool"
    /\ Raise(conversation, FrizzError("Error calling tool", exc))
    /\ UNCHANGED <<tools, context, saved, user_message, agent_message, chosen_tool,
                   parameters_response, stepNo, pre, handlerInvoked, handlerValue,
                   toolSteps, modelRequests>>
    /\ UNCHANGED <<tcVars, regVars, toolVars, stepsVars, gemVars>>

\* The handler returns: its value is dropped, tool_message is None.
HandlerReturns(value) ==
    /\ pc = "chosen_tool"
    /\ handlerValue' = value
    /\ result' = StepResult(assistant_message_of(agent_message.text, stepNo), None)
    /\ pc' = "done"
    /\ UNCHANGED <<tools, context, conversation, saved, user_message, agent_message,
                   chosen_tool, parameters_response, stepNo, pre, handlerInvoked,
                   toolSteps, modelRequests>>
    /\ UNCHANGED <<tcVars, regVars, toolVars, stepsVars, gemVars>>

AgentNext ==
    \/ \E c \in UserContents : StepCall(c)
    \/ \E e \in ModelErrors : DecisionRaises(e)
    \/ \E t \in Texts : DecisionNoTool(t)
    \/ \E t \in Texts, n \in ToolNames : DecisionUnknownTool(t, n)
    \/ \E t \in Texts, n \in ToolNames : DecisionTool(t, n)
    \/ \E e \in ToolCallErrors : ParametersRaise(e)
    \/ \E a \in Payloads : ParametersInvalid(a)
    \/ \E a \in Payloads : ParametersValid(a)
    \/ \E x \in HandlerExceptions : HandlerRaises(x)
    \/ \E v \in HandlerValues : HandlerReturns(v)

\* ---------------------------------------------------------------------------
\* patched_llm_tool_call
\* ---------------------------------------------------------------------------
\* Message classes the operation accepts.
MessageTypes == {"LLMUserMessage", "LLMAssistantMessage", "LLMSystemMessage",
                 "LLMToolMessage"}

\* message.render(): one record for a message that is no tool message.
render(message) == <<[role |-> message, part |-> "message"]>>

\* LLMToolMessage.render_call_and_response(): the call record, then the response.
\* Mutant: the response record comes before the call record.
render_response_and_call(message) ==
    <<[role |-> message, part |-> "response"], [role |-> message, part |-> "call"]>>

render_call_and_response(message) ==
    <<[role |-> message, part |-> "call"], [role |-> message, part |-> "response"]>>

RECURSIVE render_messages(_)
\* The loop that fills rendered_messages.
render_messages(messages) ==
    IF messages = <<>> THEN <<>>
    ELSE (IF Head(messages).type = "LLMToolMessage"
          THEN render_call_and_response(Head(messages))
          ELSE render(Head(messages))) \o render_messages(Tail(messages))

\* [tool.render() for tool in tools]
rendered_tools(ts) == [i \in 1..Len(ts) |-> [type |-> "function", name |-> ts[i]]]

\* The argument strings a completion may carry.
ArgStrings == {"{}", "{\"message\": \"x\"}", "not json", ""}

MockArguments == "{\"operation\":\"multiply\", \"a\":125, \"b\":37}"

DivideByZeroArguments == "{\"operation\":\"divide\", \"a\":1, \"b\":0}"

\* Mutant: the empty string decodes to the empty object.
json_loads_lenient(str) ==
    CASE str \in {"{}", ""} -> [ok |-> TRUE, value |-> <<>>]
      [] str = "{\"message\": \"x\"}" -> [ok |-> TRUE, value |-> [message |-> "x"]]
      [] str = MockArguments ->
            [ok |-> TRUE, value |-> [operation |-> "multiply", a |-> 125, b |-> 37]]
      [] str = DivideByZeroArguments ->
            [ok |-> TRUE, value |-> [operation |-> "divide", a |-> 1, b |-> 0]]
      [] OTHER -> [ok |-> FALSE, value |-> <<>>]

\* json.loads on these strings: [ok, value].
json_loads(str) ==
    CASE str = "{}" -> [ok |-> TRUE, value |-> <<>>]
      [] str = "{\"message\": \"x\"}" -> [ok |-> TRUE, value |-> [message |-> "x"]]
      [] str = MockArguments ->
            [ok |-> TRUE, value |-> [operation |-> "multiply", a |-> 125, b |-> 37]]
      [] str = DivideByZeroArguments ->
            [ok |-> TRUE, value |-> [operation |-> "divide", a |-> 1, b |-> 0]]
      [] OTHER -> [ok |-> FALSE, value |-> <<>>]

ToolCall(id, name, arguments) == [id |-> id, name |-> name, arguments |-> arguments]

\* The tool_calls a completion's first message may carry.
ToolCallLists ==
    {<<>>}
    \cup {<<ToolCall("call-1", n, a)>> : n \in ToolNames, a \in ArgStrings}
    \cup {<<ToolCall("call-1", n, "{}"), ToolCall("call-2", "echo", "{}")>> :
             n \in ToolNames}

Contents == {"Hello!", ""}

Choice(content, tool_calls) ==
    [message |-> [role |-> "assistant", content |-> content, tool_calls |-> tool_calls]]

\* What router.acomplete may return: no choice, or one choice.
Responses ==
    {[choices |-> <<>>]}
    \cup {[choices |-> <<Choice(c, tcs)>>] : c \in Contents, tcs \in ToolCallLists}

\* What router.acomplete may raise.
RouterExceptions == {"ServiceUnavailableError", "RateLimitError", "ValidationError"}

\* Mutant: the mock selects the last advertised tool.
mock_response_last(ts) ==
    IF ts = <<>> THEN [raised |-> "IndexError", response |-> [choices |-> <<>>]]
    ELSE [raised |-> None,
          response |-> [choices |-> <<Choice("I'll calculate that for you.",
                            <<ToolCall("mock-tool-call", ts[Len(ts)], MockArguments)>>)>>]]

\* The completion the inner except clause builds; tools[0] of an empty list raises.
mock_response(ts) ==
    IF ts = <<>> THEN [raised |-> "IndexError", response |-> [choices |-> <<>>]]
    ELSE [raised |-> None,
          response |-> [choices |-> <<Choice("I'll calculate that for you.",
                            <<ToolCall("mock-tool-call", ts[1], MockArguments)>>)>>]]

\* The outer except clauses.
translate(exc) ==
    CASE exc = "ServiceUnavailableError" -> "ModelUnavailableError"
      [] exc = "RateLimitError" -> "RateLimitExceededError"
      [] OTHER -> exc

NoToolCall == [id |-> None, tool_name |-> None, arguments |-> <<>>]

LLMResponseToolCall(id, tool_name, arguments) ==
    [id |-> id, tool_name |-> tool_name, arguments |-> arguments]

\* Mutant: the completion's text is not handed on.
LLMAutoToolResponse_without_text(tool_call, text) ==
    [kind |-> "returned", type |-> "LLMAutoToolResponse", tool_call |-> tool_call,
     text |-> None, error |-> None]

LLMAutoToolResponse(tool_call, text) ==
    [kind |-> "returned", type |-> "LLMAutoToolResponse", tool_call |-> tool_call,
     text |-> text, error |-> None]

LLMRequiredToolResponse(tool_call) ==
    [kind |-> "returned", type |-> "LLMRequiredToolResponse", tool_call |-> tool_call,
     text |-> None, error |-> None]

TcRaised(error) ==
    [kind |-> "raised", type |-> None, tool_call |-> NoToolCall, text |-> None,
     error |-> error]

TcNoResult ==
    [kind |-> "none", type |-> None, tool_call |-> NoToolCall, text |-> None,
     error |-> None]

\* tool_calls or []
first_tool_calls(response) == response.choices[1].message.tool_calls

\* next(tool for tool in tools if tool.name == name): the indices that match.
matching(ts, name) == {i \in 1..Len(ts) : ts[i] = name}

Min(S) == CHOOSE x \in S : \A y \in S : x <= y

\* Mutant: the choices are not counted, so that choices[0] fails on none.
interpret_choices_uncounted(response, ts, tool_choice) ==
    IF Len(response.choices) = 0 THEN TcRaised("IndexError")
    ELSE IF Len(first_tool_calls(response)) = 0
    THEN (IF tool_choice = "required" THEN TcRaised("ToolCallError")
          ELSE LLMAutoToolResponse(NoToolCall, response.choices[1].message.content))
    ELSE IF matching(ts, first_tool_calls(response)[1].name) = {}
    THEN TcRaised("ToolCallError")
    ELSE IF ~json_loads(first_tool_calls(response)[1].arguments).ok
    THEN TcRaised("ToolCallError")
    ELSE LET call == first_tool_calls(response)[1]
             tool_call == LLMResponseToolCall(call.id,
                              ts[Min(matching(ts, call.name))],
                              json_loads(call.arguments).value)
         IN  IF tool_choice = "required" THEN LLMRequiredToolResponse(tool_call)
             ELSE LLMAutoToolResponse(tool_call, None)

\* Everything after the router call: choices, tool calls, lookup, decoding.
interpret(response, ts, tool_choice) ==
    IF Len(response.choices) = 0 THEN TcRaised("NoResponseError")
    ELSE IF Len(first_tool_calls(response)) = 0
    THEN (IF tool_choice = "required" THEN TcRaised("ToolCallError")
          ELSE LLMAutoToolResponse(NoToolCall, response.choices[1].message.content))
    ELSE IF matching(ts, first_tool_calls(response)[1].name) = {}
    THEN TcRaised("ToolCallError")
    ELSE IF ~json_loads(first_tool_calls(response)[1].arguments).ok
    THEN TcRaised("ToolCallError")
    ELSE LET call == first_tool_calls(response)[1]
             tool_call == LLMResponseToolCall(call.id,
                              ts[Min(matching(ts, call.name))],
                              json_loads(call.arguments).value)
         IN  IF tool_choice = "required" THEN LLMRequiredToolResponse(tool_call)
             ELSE LLMAutoToolResponse(tool_call, None)

\* The tool lists (LLMTool, by name) a caller may advertise.
ToolLists == UNION {[1..n -> ToolNames] : n \in 0..MaxTools}

\* A message is told from the others of its list by its id (its created_at).
MessageLists ==
    UNION {{[i \in 1..n |-> [type |-> f[i], id |-> i]] : f \in [1..n -> MessageTypes]} :
              n \in 0..MaxMessages}

TcInit ==
    /\ tc_pc = "start"
    /\ tc_tools \in ToolLists
    /\ tc_tool_choice \in {"auto", "required"}
    /\ tc_messages \in MessageLists
    /\ tc_router = "pending"
    /\ tc_response = <<>>
    /\ tc_result = TcNoResult
    /\ tc_requests = <<>>

TcIdle ==
    /\ tc_pc = "off"
    /\ tc_tools = <<>>
    /\ tc_tool_choice = "auto"
    /\ tc_messages = <<>>
    /\ tc_router = "pending"
    /\ tc_response = <<>>
    /\ tc_result = TcNoResult
    /\ tc_requests = <<>>

\* The call up to the await of router.acomplete.
TcCall ==
    /\ tc_pc = "start"
    /\ tc_requests' = Append(tc_requests,
                             [messages |-> render_messages(tc_messages),
                              tools |-> rendered_tools(tc_tools),
                              tool_choice |-> tc_tool_choice])
    /\ tc_pc' = "acomplete"
    /\ UNCHANGED <<tc_tools, tc_tool_choice, tc_messages, tc_router, tc_response,
                   tc_result>>
    /\ UNCHANGED <<agentVars, regVars, toolVars, stepsVars, gemVars>>

\* router.acomplete returns a completion.
TcRouterReturns(response) ==
    /\ tc_pc = "acomplete"
    /\ tc_router' = "returned"
    /\ tc_response' = <<response>>
    /\ tc_result' = interpret(response, tc_tools, tc_tool_choice)
    /\ tc_pc' = "done"
    /\ UNCHANGED <<tc_tools, tc_tool_choice, tc_messages, tc_requests>>
    /\ UNCHANGED <<agentVars, regVars, toolVars, stepsVars, gemVars>>

\* router.acomplete raises: the inner except clause answers with the mock.
TcRouterRaises(exc) ==
    /\ tc_pc = "acomplete"
    /\ tc_router' = exc
    /\ LET mock == mock_response(tc_tools)
       IN  IF mock.raised # None
           THEN /\ tc_response' = <<>>
                /\ tc_result' = TcRaised(translate(mock.raised))
           ELSE /\ tc_response' = <<mock.response>>
                /\ tc_result' = interpret(mock.response, tc_tools, tc_tool_choice)
    /\ tc_pc' = "done"
    /\ UNCHANGED <<tc_tools, tc_tool_choice, tc_messages, tc_requests>>
    /\ UNCHANGED <<agentVars, regVars, toolVars, stepsVars, gemVars>>

NextToolCall ==
    \/ TcCall
    \/ \E r \in Responses : TcRouterReturns(r)
    \/ \E x \in RouterExceptions : TcRouterRaises(x)

\* ---------------------------------------------------------------------------
\* The registry: tools_by_name and its lookup
\* ---------------------------------------------------------------------------
\* Any handler name may be registered with any parameters model.
RegToolPool == [name : ToolNames, parameters_model : {EchoParams, JokeParams}]

RegToolLists == UNION {[1..n -> RegToolPool] : n \in 0..MaxTools}

\* The names a lookup may ask for.
QueryNames == ToolNames \cup {"lookup_fact"}

\* __init__ stores the list as it is: nothing is raised, whatever the names.
RegInit ==
    /\ reg_tools \in RegToolLists
    /\ reg_query = None
    /\ reg_result = NoTool
    /\ reg_error = None

RegIdle ==
    /\ reg_tools = <<>>
    /\ reg_query = None
    /\ reg_result = NoTool
    /\ reg_error = None

\* self.tools_by_name.get(name)
RegLookup(name) ==
    /\ reg_query' = name
    /\ reg_result' = dict_get(tools_by_name(reg_tools), name)
    /\ UNCHANGED <<reg_tools, reg_error>>
    /\ UNCHANGED <<agentVars, tcVars, toolVars, stepsVars, gemVars>>

NextRegistry == \E n \in QueryNames : RegLookup(n)

\* ---------------------------------------------------------------------------
\* Tool: the descriptor of frizz/_internal/tools.py
\* ---------------------------------------------------------------------------
\* What get_type_hints may give for "parameters": nothing, or a model.
ParameterHints == {None, "EchoParams", "JokeParams"}

\* __doc__ of a handler.
Docs == {None, "Echo back the input message."}

\* A handler: its __name__, its __doc__, its hint for parameters, and whether
\* awaiting it returns or raises.
Handlers ==
    [name : {"echo", "calculator"}, doc : Docs, parameters_hint : ParameterHints,
     behaviour : {"returns", "raises"}]

NoHandler == [name |-> None, doc |-> None, parameters_hint |-> None, behaviour |-> None]

Contexts == {"SimpleContext", "MyContext"}

\* Validated parameters objects a caller may pass.
ParameterObjects == {"message='a'", "message='b'"}

Returned(value) == [kind |-> "returned", value |-> value, error |-> None]

Failed(error) == [kind |-> "raised", value |-> None, error |-> error]

NoOutcome == [kind |-> "none", value |-> None, error |-> None]

\* The last operation on the descriptor and its outcome.
Did(op, outcome) == [op |-> op, outcome |-> outcome]

\* The handler's own result: a function of what it is given.
handler_result(fn, ctx, parameters) == <<fn.name, ctx, parameters>>

\* Awaiting the handler: it returns its result or raises its own exception.
await_fn(fn, ctx, parameters) ==
    IF fn.behaviour = "returns" THEN Returned(handler_result(fn, ctx, parameters))
    ELSE Failed("ValueError")

\* Mutant: the context is not handed on to the handler.
call_without_context(tool, ctx, parameters) ==
    [received |-> [context |-> None, parameters |-> parameters],
     outcome |-> await_fn(tool.fn, None, parameters)]

\* Tool.__call__: return await self._fn(context=context, parameters=parameters)
call(tool, ctx, parameters) ==
    [received |-> [context |-> ctx, parameters |-> parameters],
     outcome |-> await_fn(tool.fn, ctx, parameters)]

\* Tool.parameters_model
parameters_model(tool) ==
    IF tool.fn.parameters_hint # None THEN Returned(tool.fn.parameters_hint)
    ELSE Failed("TypeError")

\* Tool.name
name_of(tool) == tool.fn.name

\* Tool.description
description(tool) == IF tool.fn.doc # None THEN tool.fn.doc ELSE ""

\* Tool.as_llm_tool
as_llm_tool(tool) ==
    IF parameters_model(tool).kind = "raised" THEN parameters_model(tool)
    ELSE Returned(<<name_of(tool), description(tool), parameters_model(tool).value>>)

ToolInit ==
    /\ tl_pc = "start"
    /\ tl_fn \in Handlers
    /\ tl_tool = <<>>
    /\ tl_registered = NoOutcome
    /\ tl_args = <<>>
    /\ tl_received = <<>>
    /\ tl_out = Did(None, NoOutcome)

ToolIdle ==
    /\ tl_pc = "off"
    /\ tl_fn = NoHandler
    /\ tl_tool = <<>>
    /\ tl_registered = NoOutcome
    /\ tl_args = <<>>
    /\ tl_received = <<>>
    /\ tl_out = Did(None, NoOutcome)

\* tool(fn): Tool(fn) keeps the handler and looks at nothing.
TlRegister ==
    /\ tl_pc = "start"
    /\ tl_tool' = <<[fn |-> tl_fn]>>
    /\ tl_registered' = Returned("Tool")
    /\ tl_pc' = "registered"
    /\ UNCHANGED <<tl_fn, tl_args, tl_received, tl_out>>
    /\ UNCHANGED <<agentVars, tcVars, regVars, stepsVars, gemVars>>

TlName ==
    /\ tl_pc = "registered"
    /\ tl_out' = Did("name", Returned(name_of(tl_tool[1])))
    /\ UNCHANGED <<tl_pc, tl_fn, tl_tool, tl_registered, tl_args, tl_received>>
    /\ UNCHANGED <<agentVars, tcVars, regVars, stepsVars, gemVars>>

TlDescription ==
    /\ tl_pc = "registered"
    /\ tl_out' = Did("description", Returned(description(tl_tool[1])))
    /\ UNCHANGED <<tl_pc, tl_fn, tl_tool, tl_registered, tl_args, tl_received>>
    /\ UNCHANGED <<agentVars, tcVars, regVars, stepsVars, gemVars>>

TlParametersModel ==
    /\ tl_pc = "registered"
    /\ tl_out' = Did("parameters_model", parameters_model(tl_tool[1]))
    /\ UNCHANGED <<tl_pc, tl_fn, tl_tool, tl_registered, tl_args, tl_received>>
    /\ UNCHANGED <<agentVars, tcVars, regVars, stepsVars, gemVars>>

TlAsLLMTool ==
    /\ tl_pc = "registered"
    /\ tl_out' = Did("as_llm_tool", as_llm_tool(tl_tool[1]))
    /\ UNCHANGED <<tl_pc, tl_fn, tl_tool, tl_registered, tl_args, tl_received>>
    /\ UNCHANGED <<agentVars, tcVars, regVars, stepsVars, gemVars>>

\* await tool(context=..., parameters=...)
TlCall(ctx, parameters) ==
    /\ tl_pc = "registered"
    /\ Len(tl_received) < MaxInvocations
    /\ tl_args' = <<[context |-> ctx, parameters |-> parameters]>>
    /\ tl_received' = Append(tl_received, call(tl_tool[1], ctx, parameters).received)
    /\ tl_out' = Did("__call__", call(tl_tool[1], ctx, parameters).outcome)
    /\ UNCHANGED <<tl_pc, tl_fn, tl_tool, tl_registered>>
    /\ UNCHANGED <<agentVars, tcVars, regVars, stepsVars, gemVars>>

NextTool ==
    \/ TlRegister
    \/ TlName
    \/ TlDescription
    \/ TlParametersModel
    \/ TlAsLLMTool
    \/ \E c \in Contexts, q \in ParameterObjects : TlCall(c, q)

\* ---------------------------------------------------------------------------
\* Concurrent step calls: tasks that call step on PatchedAgent objects
\* ---------------------------------------------------------------------------
\* The tasks of the event loop, each calling step on one agent.
Tasks == {1, 2}

\* The PatchedAgent objects; each holds the Conversation its __init__ made.
AgentIds == {"agent1", "agent2"}

\* What each task says in its user messages.
TaskContents == <<"Hello, world!", "What is 2+2?">>

\* What the collaborators answer to a task: one text, one error of each kind.
TaskTexts == {"hi"}
TaskModelErrors == {"RateLimitExceededError"}
TaskToolCallErrors == {"ToolCallError"}
TaskHandlerExceptions == {"ValueError"}

\* The locals of a step call that has not started.
NoFrame(at) ==
    [pc |-> at, saved |-> NewConversation, calls |-> 0, user_message |-> NoTurn,
     agent_message |-> NoAgentMessage, chosen_tool |-> NoTool, result |-> NoResult,
     requests |-> <<>>]

\* What a task's calls give when no other task runs: nothing yet.
NoAlone ==
    [conversation |-> NewConversation, saved |-> NewConversation,
     requests |-> <<>>, result |-> NoResult]

\* One agent with a fresh Conversation; both tasks call step on it.
SharedInit ==
    /\ st_tools \in AgentToolLists
    /\ st_self = [t \in Tasks |-> "agent1"]
    /\ st_conversation = [a \in AgentIds |-> NewConversation]
    /\ st_frame = [t \in Tasks |-> NoFrame("idle")]
    /\ st_alone = [t \in Tasks |-> NoAlone]
    /\ st_overlap = FALSE

\* Two agents constructed over one tool list, each with a fresh Conversation;
\* each task calls step on an agent of its own.
StepsInit ==
    /\ st_tools \in AgentToolLists
    /\ st_self \in {f \in [Tasks -> AgentIds] : f[1] # f[2]}
    /\ st_conversation = [a \in AgentIds |-> NewConversation]
    /\ st_frame = [t \in Tasks |-> NoFrame("idle")]
    /\ st_alone = [t \in Tasks |-> NoAlone]
    /\ st_overlap = FALSE

StepsIdle ==
    /\ st_tools = <<>>
    /\ st_self = [t \in Tasks |-> "agent1"]
    /\ st_conversation = [a \in AgentIds |-> NewConversation]
    /\ st_frame = [t \in Tasks |-> NoFrame("off")]
    /\ st_alone = [t \in Tasks |-> NoAlone]
    /\ st_overlap = FALSE

\* Mutant: every task's self is the same agent object.
self_shared(t) == "agent1"

\* self in the step call of task t.
self(t) == st_self[t]

\* The positions at which a step call is suspended.
Suspended == {"llm_structured", "llm_tool_call", "chosen_tool"}

\* With task t's call at fr, another task's call on the same agent is suspended.
Overlapping(t, fr) ==
    /\ fr.pc \in Suspended
    /\ \E u \in Tasks \ {t} : st_self[u] = st_self[t] /\ st_frame[u].pc \in Suspended

\* The step calls task t may make.
CallLimit(t) ==
    IF \E u \in Tasks \ {t} : st_self[u] = st_self[t] THEN MaxSharedCalls ELSE MaxCalls

\* The stretch of task t's step call between two suspension points: its locals
\* become fr, self._conversation becomes conv, and what the call gives when run
\* alone becomes al.
Stretch(t, fr, conv, al) ==
    /\ st_frame' = [st_frame EXCEPT ![t] = fr]
    /\ st_conversation' = [st_conversation EXCEPT ![self(t)] = conv]
    /\ st_alone' = [st_alone EXCEPT ![t] = al]
    /\ st_overlap' = (st_overlap \/ Overlapping(t, fr))
    /\ UNCHANGED <<st_tools, st_self>>
    /\ UNCHANGED <<agentVars, tcVars, regVars, toolVars, gemVars>>

\* The call of task t leaves through an exception.
StretchRaise(t, conv, aloneConv, error) ==
    Stretch(t,
            [st_frame[t] EXCEPT !.pc = "done", !.result = Raised(error)],
            session_rollback(st_frame[t].saved, conv),
            [st_alone[t] EXCEPT !.conversation = session_rollback(st_alone[t].saved, aloneConv),
                                !.result = Raised(error)])

\* step(user_message, router) up to the await of llm_structured.
TaskStepCall(t) ==
    LET fr == st_frame[t]
        al == st_alone[t]
        um == Turn("user", "LLMUserMessage", TaskContents[t], fr.calls + 1)
        conv == add_user_message(st_conversation[self(t)], um)
        aloneConv == add_user_message(al.conversation, um)
    IN  /\ fr.pc \in {"idle", "done"}
        /\ fr.calls < CallLimit(t)
        /\ Stretch(t,
                   [pc |-> "llm_structured",
                    saved |-> session_enter(st_conversation[self(t)]),
                    calls |-> fr.calls + 1,
                    user_message |-> um,
                    agent_message |-> NoAgentMessage,
                    chosen_tool |-> NoTool,
                    result |-> NoResult,
                    requests |-> request(<<>>, "llm_structured", conv)],
                   conv,
                   [conversation |-> aloneConv,
                    saved |-> session_enter(al.conversation),
                    requests |-> request(<<>>, "llm_structured", aloneConv),
                    result |-> NoResult])

\* llm_structured raises.
TaskDecisionRaises(t, err) ==
    /\ st_frame[t].pc = "llm_structured"
    /\ StretchRaise(t, st_conversation[self(t)], st_alone[t].conversation,
                    Error(err, "", None))

\* llm_structured returns a decision that names no tool.
TaskDecisionNoTool(t, text) ==
    LET fr == st_frame[t]
        am == assistant_message_of(text, fr.calls)
    IN  /\ fr.pc = "llm_structured"
        /\ Stretch(t,
                   [fr EXCEPT !.pc = "done",
                              !.agent_message = [text |-> text, chosen_tool_name |-> None],
                              !.result = StepResult(am, None)],
                   add_assistant_message(st_conversation[self(t)], am),
                   [st_alone[t] EXCEPT !.conversation = add_assistant_message(@, am),
                                       !.result = StepResult(am, None)])

\* llm_structured returns a decision naming a tool that tools_by_name lacks.
TaskDecisionUnknownTool(t, text, name) ==
    LET fr == st_frame[t]
        am == assistant_message_of(text, fr.calls)
    IN  /\ fr.pc = "llm_structured"
        /\ dict_get(tools_by_name(st_tools), name) = NoTool
        /\ StretchRaise(t,
                        add_assistant_message(st_conversation[self(t)], am),
                        add_assistant_message(st_alone[t].conversation, am),
                        FrizzError("Tool not found", name))

\* llm_structured returns a decision naming a registered tool.
TaskDecisionTool(t, text, name) ==
    LET fr == st_frame[t]
        am == assistant_message_of(text, fr.calls)
        conv == add_assistant_message(st_conversation[self(t)], am)
        aloneConv == add_assistant_message(st_alone[t].conversation, am)
    IN  /\ fr.pc = "llm_structured"
        /\ dict_get(tools_by_name(st_tools), name) # NoTool
        /\ Stretch(t,
                   [fr EXCEPT !.pc = "llm_tool_call",
                              !.agent_message = [text |-> text, chosen_tool_name |-> name],
                              !.chosen_tool = dict_get(tools_by_name(st_tools), name),
                              !.requests = request(@, "llm_tool_call", conv)],
                   conv,
                   [st_alone[t] EXCEPT !.conversation = aloneConv,
                                       !.requests = request(@, "llm_tool_call", aloneConv)])

\* llm_tool_call raises.
TaskParametersRaise(t, err) ==
    /\ st_frame[t].pc = "llm_tool_call"
    /\ StretchRaise(t, st_conversation[self(t)], st_alone[t].conversation,
                    FrizzError("Error with tool parameters", err))

\* llm_tool_call returns arguments that model_validate rejects.
TaskParametersInvalid(t, arguments) ==
    /\ st_frame[t].pc = "llm_tool_call"
    /\ ~model_validate(st_frame[t].chosen_tool.parameters_model, arguments)
    /\ StretchRaise(t, st_conversation[self(t)], st_alone[t].conversation,
                    FrizzError("Error with tool parameters", "ValidationError"))

\* llm_tool_call returns arguments that validate: the handler is awaited.
TaskParametersValid(t, arguments) ==
    /\ st_frame[t].pc = "llm_tool_call"
    /\ model_validate(st_frame[t].chosen_tool.parameters_model, arguments)
    /\ Stretch(t, [st_frame[t] EXCEPT !.pc = "chosen_tool"],
               st_conversation[self(t)], st_alone[t])

\* The handler raises.
TaskHandlerRaises(t, exc) ==
    /\ st_frame[t].pc = "chosen_tool"
    /\ StretchRaise(t, st_conversation[self(t)], st_alone[t].conversation,
                    FrizzError("Error calling tool", exc))

\* The handler returns.
TaskHandlerReturns(t) ==
    LET fr == st_frame[t]
        am == assistant_message_of(fr.agent_message.text, fr.calls)
    IN  /\ fr.pc = "chosen_tool"
        /\ Stretch(t,
                   [fr EXCEPT !.pc = "done", !.result = StepResult(am, None)],
                   st_conversation[self(t)],
                   [st_alone[t] EXCEPT !.result = StepResult(am, None)])

NextSteps ==
    \/ \E t \in Tasks : TaskStepCall(t)
    \/ \E t \in Tasks, e \in TaskModelErrors : TaskDecisionRaises(t, e)
    \/ \E t \in Tasks, x \in TaskTexts : TaskDecisionNoTool(t, x)
    \/ \E t \in Tasks, x \in TaskTexts, n \in ToolNames : TaskDecisionUnknownTool(t, x, n)
    \/ \E t \in Tasks, x \in TaskTexts, n \in ToolNames : TaskDecisionTool(t, x, n)
    \/ \E t \in Tasks, e \in TaskToolCallErrors : TaskParametersRaise(t, e)
    \/ \E t \in Tasks, a \in Payloads : TaskParametersInvalid(t, a)
    \/ \E t \in Tasks, a \in Payloads : TaskParametersValid(t, a)
    \/ \E t \in Tasks, x \in TaskHandlerExceptions : TaskHandlerRaises(t, x)
    \/ \E t \in Tasks : TaskHandlerReturns(t)

\* ---------------------------------------------------------------------------
\* DirectGeminiAgent.send_message (examples/direct_gemini_example.py)
\* ---------------------------------------------------------------------------
\* CalculatorParams: operation, a and b are all required.
CalculatorParams ==
    [name |-> "CalculatorParams", fields |-> {"operation", "a", "b"},
     required |-> {"operation", "a", "b"}]

\* The calculator tool as the agent sees it: its name and parameters model.
calculator_tool == [name |-> "calculator", parameters_model |-> CalculatorParams]

\* The handler of the calculator tool.
calculator(parameters) ==
    CASE parameters.operation = "add" ->
            Returned([result |-> parameters.a + parameters.b, operation |-> "add"])
      [] parameters.operation = "subtract" ->
            Returned([result |-> parameters.a - parameters.b, operation |-> "subtract"])
      [] parameters.operation = "multiply" ->
            Returned([result |-> parameters.a * parameters.b, operation |-> "multiply"])
      [] parameters.operation = "divide" ->
            IF parameters.b = 0 THEN Failed("ValueError")
            ELSE Returned([result |-> <<parameters.a, "/", parameters.b>>,
                           operation |-> "divide"])
      [] OTHER -> Failed("ValueError")

\* Names a function call may carry: the registered one and one nobody registers.
FunctionNames == {"calculator", "search"}

\* The args a function call may carry.
FunctionArgs == {MockArguments, DivideByZeroArguments, "{}", "not json"}

TextPart == [kind |-> "text", name |-> None, args |-> None]

FunctionCallPart(name, args) == [kind |-> "function_call", name |-> name, args |-> args]

\* A call of the registered tool carries any of the args; a call of the other
\* name carries args that decode or args that do not.
Parts ==
    {TextPart}
    \cup {FunctionCallPart("calculator", a) : a \in FunctionArgs}
    \cup {FunctionCallPart(n, a) : n \in FunctionNames, a \in {MockArguments, "not json"}}

PartLists == UNION {[1..n -> Parts] : n \in 0..MaxParts}

ResponseTexts == {"The result is 4625."}

\* What chat.send_message may return: no candidate, or one with some parts.
GeminiResponses ==
    {[candidates |-> <<>>, text |-> x] : x \in ResponseTexts}
    \cup {[candidates |-> <<[parts |-> ps]>>, text |-> x] :
             ps \in PartLists, x \in ResponseTexts}

\* What chat.send_message may raise.
GeminiErrors == {"ServiceUnavailable"}

\* response.candidates and response.candidates[0].content.parts
parts_of(response) ==
    IF Len(response.candidates) = 0 THEN <<>> ELSE response.candidates[1].parts

\* The decoded values used here all have the declared type of their field.
as_payload(tool_args) == [f \in DOMAIN tool_args |-> "fits"]

\* Mutant: a name nobody registered gets the first tool.
matching_tool_or_first(ts, name) ==
    IF ts = <<>> THEN <<>>
    ELSE IF \E i \in 1..Len(ts) : ts[i].name = name
    THEN <<ts[Min({i \in 1..Len(ts) : ts[i].name = name})]>>
    ELSE <<ts[1]>>

\* next((t for t in self.tools if t.name == tool_name), None): <<>> or <<tool>>.
matching_tool(ts, name) ==
    IF \E i \in 1..Len(ts) : ts[i].name = name
    THEN <<ts[Min({i \in 1..Len(ts) : ts[i].name = name})]>>
    ELSE <<>>

\* The loop over the parts from part i up to the next await of a handler: it
\* ends, raises, or reaches the await at some part.
RECURSIVE scan(_, _, _)
scan(parts, i, ts) ==
    IF i > Len(parts) THEN [kind |-> "end", index |-> i, error |-> None]
    ELSE IF parts[i].kind # "function_call" THEN scan(parts, i + 1, ts)
    ELSE IF ~json_loads(parts[i].args).ok
    THEN [kind |-> "raise", index |-> i, error |-> "JSONDecodeError"]
    ELSE IF matching_tool(ts, parts[i].name) = <<>> THEN scan(parts, i + 1, ts)
    ELSE IF ~model_validate(matching_tool(ts, parts[i].name)[1].parameters_model,
                            as_payload(json_loads(parts[i].args).value))
    THEN [kind |-> "raise", index |-> i, error |-> "ValidationError"]
    ELSE [kind |-> "await", index |-> i, error |-> None]

\* json.dumps(tool_results)
json_dumps(value) == <<"json", value>>

Entry(role, content) == [role |-> role, content |-> content]

GeminiReturned(response_text, tool_calls, tool_results) ==
    [kind |-> "returned", response |-> response_text, tool_calls |-> tool_calls,
     tool_results |-> tool_results, error |-> None]

GeminiRaised(error) ==
    [kind |-> "raised", response |-> None, tool_calls |-> <<>>, tool_results |-> <<>>,
     error |-> error]

GeminiNoResult ==
    [kind |-> "none", response |-> None, tool_calls |-> <<>>, tool_results |-> <<>>,
     error |-> None]

NoGeminiResponse == [candidates |-> <<>>, text |-> None]

GeminiMessages == {"What is 125 times 37?"}

GeminiToolLists == {<<calculator_tool>>}

GeminiInit ==
    /\ g_pc = "idle"
    /\ g_tools \in GeminiToolLists
    /\ g_history = <<>>
    /\ g_response = NoGeminiResponse
    /\ g_index = 0
    /\ g_tool_calls = <<>>
    /\ g_tool_results = <<>>
    /\ g_result = GeminiNoResult
    /\ g_sends = 0
    /\ g_pre = <<>>

GeminiIdle ==
    /\ g_pc = "off"
    /\ g_tools = <<>>
    /\ g_history = <<>>
    /\ g_response = NoGeminiResponse
    /\ g_index = 0
    /\ g_tool_calls = <<>>
    /\ g_tool_results = <<>>
    /\ g_result = GeminiNoResult
    /\ g_sends = 0
    /\ g_pre = <<>>

\* From part i on, with the calls and results gathered so far and the history
\* as it stands: the loop runs to its next await, to a raise, or to the return.
Proceed(response, i, calls, results, history) ==
    LET s == scan(parts_of(response), i, g_tools)
    IN  /\ g_index' = s.index
        /\ g_tool_calls' = calls
        /\ g_tool_results' = results
        /\ CASE s.kind = "await" ->
                  /\ g_pc' = "handler"
                  /\ g_history' = history
                  /\ g_result' = GeminiNoResult
             [] s.kind = "raise" ->
                  /\ g_pc' = "done"
                  /\ g_history' = history
                  /\ g_result' = GeminiRaised(s.error)
             [] OTHER ->
                  /\ g_pc' = "done"
                  /\ g_history' =
                        history \o <<Entry("assistant", response.text)>>
                        \o (IF results # <<>>
                            THEN <<Entry("tool", json_dumps(results))>> ELSE <<>>)
                  /\ g_result' = GeminiReturned(response.text, calls, results)

\* send_message(message) when chat.send_message returns: up to the first await
\* of a handler, or to the end.
SendMessage(message, response) ==
    /\ g_pc \in {"idle", "done"}
    /\ g_sends < MaxSends
    /\ g_sends' = g_sends + 1
    /\ g_pre' = g_history
    /\ g_response' = response
    /\ Proceed(response, 1, <<>>, <<>>, Append(g_history, Entry("user", message)))
    /\ UNCHANGED g_tools
    /\ UNCHANGED <<agentVars, tcVars, regVars, toolVars, stepsVars>>

\* send_message(message) when chat.send_message raises.
SendMessageModelRaises(message, err) ==
    /\ g_pc \in {"idle", "done"}
    /\ g_sends < MaxSends
    /\ g_sends' = g_sends + 1
    /\ g_pre' = g_history
    /\ g_response' = NoGeminiResponse
    /\ g_history' = Append(g_history, Entry("user", message))
    /\ g_index' = 0
    /\ g_tool_calls' = <<>>
    /\ g_tool_results' = <<>>
    /\ g_result' = GeminiRaised(err)
    /\ g_pc' = "done"
    /\ UNCHANGED g_tools
    /\ UNCHANGED <<agentVars, tcVars, regVars, toolVars, stepsVars>>

\* The awaited handler answers: its result is recorded and the loop goes on, or
\* its exception leaves send_message.
HandlerAnswers ==
    /\ g_pc = "handler"
    /\ LET part == parts_of(g_response)[g_index]
           tool_args == json_loads(part.args).value
           outcome == calculator(tool_args)
       IN  IF outcome.kind = "raised"
           THEN /\ g_pc' = "done"
                /\ g_result' = GeminiRaised(outcome.error)
                /\ UNCHANGED <<g_history, g_index, g_tool_calls, g_tool_results>>
           ELSE Proceed(g_response, g_index + 1,
                        Append(g_tool_calls, [name |-> part.name, args |-> tool_args]),
                        Append(g_tool_results,
                               [name |-> part.name, result |-> outcome.value]),
                        g_history)
    /\ UNCHANGED <<g_tools, g_response, g_sends, g_pre>>
    /\ UNCHANGED <<agentVars, tcVars, regVars, toolVars, stepsVars>>

NextGemini ==
    \/ \E m \in GeminiMessages, r \in GeminiResponses : SendMessage(m, r)
    \/ \E m \in GeminiMessages, e \in GeminiErrors : SendMessageModelRaises(m, e)
    \/ HandlerAnswers

\* ---------------------------------------------------------------------------
\* Properties of PatchedAgent.step (specification Spec)
\* ---------------------------------------------------------------------------
\* The step call has ended: it returned or raised.
Ended == pc = "done"

\* The names registered with the agent.
RegisteredNames == {tools[i].name : i \in 1..Len(tools)}

\* The decision of the ended step named no tool.
NoToolDecided ==
    Ended /\ agent_message # NoAgentMessage /\ agent_message.chosen_tool_name = None

\* The turns the ended step left behind, the user turn included.
StepTurns ==
    IF Len(conversation.turns) >= Len(pre.turns)
    THEN SubSeq(conversation.turns, Len(pre.turns) + 1, Len(conversation.turns))
    ELSE <<>>

\* The conversation is the pre-step one with exactly these turns appended.
GrewBy(turns) ==
    /\ conversation.system = pre.system
    /\ conversation.turns = pre.turns \o turns

Kinds(turns) == [i \in 1..Len(turns) |-> turns[i].kind]

\* C1: a step whose decision selects no tool appends, after the user turn,
\* exactly one assistant turn carrying the decision's text and no tool turn, and
\* returns an outcome whose tool message is None.
C1_NoToolAppendsOneAssistantTurn ==
    NoToolDecided =>
        /\ Len(StepTurns) = 2
        /\ GrewBy(StepTurns)
        /\ StepTurns[1] = user_message
        /\ StepTurns[2].kind = "assistant"
        /\ StepTurns[2].content = agent_message.text
        /\ result.kind = "returned"
        /\ result.tool_message = None

\* A second step ends with a text-only decision on a conversation that already
\* holds turns.
C1_Witness ==
    /\ NoToolDecided
    /\ stepNo = 2
    /\ pre.turns # <<>>
    /\ result.kind = "returned"

\* The handler of the ended step returned a value.
HandlerReturned == Ended /\ handlerInvoked /\ handlerValue # None

\* The handler of the ended step raised.
HandlerRaised == Ended /\ handlerInvoked /\ handlerValue = None

\* C2: a step whose decision selects a registered tool with arguments that
\* validate appends, after the user turn, exactly the turns assistant,
\* tool-invocation, tool-result in this order, and its outcome carries the value
\* the handler returned.
C2_ToolStepAppendsThreeTurns ==
    HandlerReturned =>
        /\ GrewBy(StepTurns)
        /\ Kinds(StepTurns) = <<"user", "assistant", "tool_invocation", "tool_result">>
        /\ result.kind = "returned"
        /\ result.tool_message = handlerValue

\* C3: when the handler raises, step does not raise: it returns an outcome whose
\* tool result is an error, and the conversation holds a tool-result turn of that
\* call marked as error.
C3_HandlerErrorIsReturned ==
    HandlerRaised =>
        /\ result.kind = "returned"
        /\ result.tool_message # None
        /\ \E i \in 1..Len(conversation.turns) :
              /\ conversation.turns[i].kind = "tool_result"
              /\ conversation.turns[i].step = stepNo

\* The decision of the ended step named a tool that is not registered.
UnknownToolDecided ==
    /\ Ended
    /\ agent_message # NoAgentMessage
    /\ agent_message.chosen_tool_name \notin RegisteredNames \cup {None}

ArgumentsRejected ==
    /\ Ended
    /\ parameters_response # <<>>
    /\ LET arguments == parameters_response[1].arguments
           model == chosen_tool.parameters_model
       IN  \/ \E f \in model.required : f \notin DOMAIN arguments
           \/ \E f \in model.fields \cap DOMAIN arguments : arguments[f] = "misfit"

C6_NoAssistantTurnWithoutToolTurns ==
    pc \in {"idle", "done"} =>
        \A i \in 1..Len(conversation.turns) :
            (conversation.turns[i].kind = "assistant"
                /\ conversation.turns[i].step \in toolSteps) =>
                /\ i + 2 <= Len(conversation.turns)
                /\ conversation.turns[i + 1].kind = "tool_invocation"
                /\ conversation.turns[i + 2].kind = "tool_result"

\* The decision request of the ended step failed.
DecisionFailed == Ended /\ agent_message = NoAgentMessage

TcEnded == tc_pc = "done"

\* C7: a router call failing as provider-unavailable makes the operation raise
\* ModelUnavailableError, one failing as rate-limited makes it raise
\* RateLimitExceededError, and neither returns a decision.
C7_RouterErrorsAreTranslated ==
    TcEnded =>
        /\ tc_router = "ServiceUnavailableError" =>
              (tc_result.kind = "raised" /\ tc_result.error = "ModelUnavailableError")
        /\ tc_router = "RateLimitError" =>
              (tc_result.kind = "raised" /\ tc_result.error = "RateLimitExceededError")

\* The router returned a completion with a first choice whose tool calls are
\* malformed: an unadvertised tool name, undecodable arguments, or none at all
\* although a tool call is required.
MalformedToolCall ==
    /\ TcEnded
    /\ tc_router = "returned"
    /\ Len(tc_response[1].choices) > 0
    /\ LET calls == tc_response[1].choices[1].message.tool_calls
       IN  \/ /\ Len(calls) > 0
              /\ \A i \in 1..Len(tc_tools) : tc_tools[i] # calls[1].name
           \/ /\ Len(calls) > 0
              /\ calls[1].arguments \in {"not json", ""}
           \/ /\ Len(calls) = 0
              /\ tc_tool_choice = "required"

\* C9: a completion with a malformed tool call is rejected with ToolCallError and
\* no decision is returned.
C9_MalformedToolCallRejected ==
    MalformedToolCall =>
        /\ tc_result.kind = "raised"
        /\ tc_result.error = "ToolCallError"
        /\ tc_result.tool_call = NoToolCall

\* An advertised tool is named with an empty arguments string.
C9_Witness ==
    /\ MalformedToolCall
    /\ Len(tc_response[1].choices[1].message.tool_calls) = 1
    /\ tc_response[1].choices[1].message.tool_calls[1].arguments = ""
    /\ \E i \in 1..Len(tc_tools) :
          tc_tools[i] = tc_response[1].choices[1].message.tool_calls[1].name
    /\ tc_result.kind = "raised"

\* The messages handed to the router by the call.
Rendered == tc_requests[1].messages

\* The tool messages among the first n messages of the call.
ToolMessagesBefore(n) ==
    Cardinality({j \in 1..n : tc_messages[j].type = "LLMToolMessage"})

\* Where the first record of message i stands in the rendered list.
RecordOf(i) == i + ToolMessagesBefore(i - 1)

\* C12: rendering keeps the order of the messages; a tool message becomes two
\* adjacent records, its call and right after it its response, any other message
\* one record; the rendered length is the number of messages plus the number of
\* tool messages.
C12_RenderPairsToolMessages ==
    tc_requests # <<>> =>
        /\ Len(Rendered) = Len(tc_messages) + ToolMessagesBefore(Len(tc_messages))
        /\ \A i \in 1..Len(tc_messages) :
              /\ RecordOf(i) <= Len(Rendered)
              /\ Rendered[RecordOf(i)].role = tc_messages[i]
              /\ IF tc_messages[i].type = "LLMToolMessage"
                 THEN /\ Rendered[RecordOf(i)].part = "call"
                      /\ RecordOf(i) + 1 <= Len(Rendered)
                      /\ Rendered[RecordOf(i) + 1].role = tc_messages[i]
                      /\ Rendered[RecordOf(i) + 1].part = "response"
                 ELSE Rendered[RecordOf(i)].part = "message"

\* A tool message followed by a user message has been rendered to three records.
C12_Witness ==
    /\ tc_requests # <<>>
    /\ Len(tc_messages) = 2
    /\ tc_messages[1].type = "LLMToolMessage"
    /\ tc_messages[2].type = "LLMUserMessage"
    /\ Len(Rendered) = 3

\* The router returned a completion whose first choice carries a tool call.
FirstCall == tc_response[1].choices[1].message.tool_calls[1]

CompletionWithCall ==
    /\ TcEnded
    /\ tc_router = "returned"
    /\ Len(tc_response[1].choices) > 0
    /\ Len(tc_response[1].choices[1].message.tool_calls) > 0

\* C21: when the completion carries both free text and a call of an advertised
\* tool, the tool call is returned and the free text is not lost: the returned
\* decision carries it.
C21_TextKeptBesideToolCall ==
    (/\ CompletionWithCall
     /\ tc_response[1].choices[1].message.content # ""
     /\ tc_result.kind = "returned") =>
        /\ tc_result.tool_call.tool_name = FirstCall.name
        /\ tc_result.text = tc_response[1].choices[1].message.content

\* C22: when the completion names an advertised tool and supplies no arguments,
\* the arguments are taken as the empty object and the decision is returned; the
\* call is never rejected as malformed.
C22_NoArgumentsAreTheEmptyObject ==
    (/\ CompletionWithCall
     /\ \E i \in 1..Len(tc_tools) : tc_tools[i] = FirstCall.name
     /\ FirstCall.arguments \in {"", "{}"}) =>
        /\ tc_result.kind = "returned"
        /\ tc_result.tool_call.arguments = <<>>

\* The router returned a completion without any choice.
NoChoices ==
    /\ TcEnded
    /\ tc_router = "returned"
    /\ Len(tc_response[1].choices) = 0

\* C23: a completion with zero choices makes the operation raise NoResponseError
\* and return no decision, for tool_choice "auto" and for "required".
C23_NoChoicesRaiseNoResponseError ==
    NoChoices => tc_result = TcRaised("NoResponseError")

\* A completion without choices has been answered under "required", with tools
\* advertised.
C23_Witness ==
    /\ NoChoices
    /\ tc_tool_choice = "required"
    /\ Len(tc_tools) = 2
    /\ tc_result.kind = "raised"

\* The names advertised in the call.
Advertised == {tc_tools[i] : i \in 1..Len(tc_tools)}

\* The completion the operation interpreted.
Completion == tc_response[1]

\* C24: a returned decision that carries a tool call names an advertised tool;
\* under "required" every returned decision carries a tool call; under "auto" a
\* returned decision without a tool call carries the completion's text.
C24_ReturnedDecisionIsWellFormed ==
    (TcEnded /\ tc_result.kind = "returned") =>
        /\ tc_result.tool_call # NoToolCall => tc_result.tool_call.tool_name \in Advertised
        /\ tc_tool_choice = "required" => tc_result.tool_call # NoToolCall
        /\ (tc_tool_choice = "auto" /\ tc_result.tool_call = NoToolCall) =>
              tc_result.text = Completion.choices[1].message.content

\* Under "auto" a completion with text and no tool call has been returned.
C24_Witness ==
    /\ TcEnded
    /\ tc_result.kind = "returned"
    /\ tc_tool_choice = "auto"
    /\ tc_result.tool_call = NoToolCall
    /\ tc_result.text = "Hello!"
    /\ Len(tc_tools) = 2

\* The router call raised.
RouterRaised == TcEnded /\ tc_router \in RouterExceptions

\* The error names the operation declares.
DeclaredErrors ==
    {"ModelUnavailableError", "RateLimitExceededError", "NoResponseError", "ToolCallError"}

\* C25: when the router call raises, the operation does not fail: it returns a
\* decision that calls the first advertised tool with operation=multiply, a=125,
\* b=37; with no tool advertised it fails with an error that is not declared.
C25_RouterErrorYieldsMockDecision ==
    RouterRaised =>
        IF tc_tools # <<>>
        THEN /\ tc_result.kind = "returned"
             /\ tc_result.tool_call =
                    LLMResponseToolCall("mock-tool-call", tc_tools[1],
                                        [operation |-> "multiply", a |-> 125, b |-> 37])
        ELSE /\ tc_result.kind = "raised"
             /\ tc_result.error \notin DeclaredErrors

\* The router raised a rate limit error while two different tools were advertised.
C25_Witness ==
    /\ RouterRaised
    /\ tc_router = "RateLimitError"
    /\ Len(tc_tools) = 2
    /\ tc_tools[1] # tc_tools[2]
    /\ tc_result.kind = "returned"

\* ---------------------------------------------------------------------------
\* Properties of the registry (specification SpecRegistry)
\* ---------------------------------------------------------------------------
DistinctNames(ts) ==
    \A i, j \in 1..Len(ts) : ts[i].name = ts[j].name => i = j

\* C10: in a registry built from tools with pairwise distinct names, lookup
\* returns the registered tool for a registered name and None for any other.
C10_LookupFindsExactlyRegistered ==
    (reg_query # None /\ DistinctNames(reg_tools)) =>
        /\ \A i \in 1..Len(reg_tools) :
              reg_tools[i].name = reg_query => reg_result = reg_tools[i]
        /\ (\A i \in 1..Len(reg_tools) : reg_tools[i].name # reg_query) =>
              reg_result = NoTool

\* The first of two distinctly named tools is looked up and found.
C10_Witness ==
    /\ Len(reg_tools) = 2
    /\ DistinctNames(reg_tools)
    /\ reg_query = reg_tools[1].name
    /\ reg_result = reg_tools[1]

\* C11: a tool list in which two tools share a name is refused with
\* DuplicateToolNameError, whatever their order, and no registry holding one of
\* the two is produced: no lookup on it finds a tool.
C11_DuplicateNamesRefused ==
    (reg_query # None /\ ~DistinctNames(reg_tools)) =>
        /\ reg_error = "DuplicateToolNameError"
        /\ reg_result = NoTool

\* ---------------------------------------------------------------------------
\* Properties of the Tool descriptor (specification SpecTool)
\* ---------------------------------------------------------------------------
\* tool(fn) has been called on a handler without a usable parameters hint.
RegisteredWithoutHint == tl_pc = "registered" /\ tl_fn.parameters_hint = None

\* C13: registering a handler for which no parameters type can be resolved fails
\* at registration with InvalidToolSignatureError and returns no descriptor.
C13_BadSignatureRefusedAtRegistration ==
    RegisteredWithoutHint =>
        /\ tl_registered.kind = "raised"
        /\ tl_registered.error = "InvalidToolSignatureError"
        /\ tl_tool = <<>>

\* The descriptor has just been invoked.
Invoked == tl_out.op = "__call__"

SystemTypedTurns ==
    {i \in 1..Len(conversation.turns) : conversation.turns[i].type = "LLMSystemMessage"}

\* C17: the conversation holds at most one system turn: no step appends a
\* system-typed turn to the history, so the system slot is the only one.
C17_AtMostOneSystemTurn ==
    /\ SystemTypedTurns = {}
    /\ Cardinality(SystemTypedTurns) + (IF conversation.system # None THEN 1 ELSE 0) <= 1

\* The running call awaits the arguments: they are not validated yet.
ValidationPending == pc = "llm_tool_call"

\* The turns the running call has appended so far that are not its user turn.
AppendedByCall ==
    {i \in 1..Len(conversation.turns) :
        /\ i > Len(pre.turns)
        /\ conversation.turns[i].kind # "user"}

\* C19: in a step whose decision selects a tool, no assistant turn or tool turn
\* has been appended while the validation of the arguments is still pending.
C19_NoAssistantTurnBeforeValidation ==
    ValidationPending => AppendedByCall = {}

\* C20: an ended step has made exactly one request to the model collaborator,
\* with the user message appended, whether or not a tool was selected.
C20_OneModelRequestPerStep ==
    Ended =>
        /\ Len(modelRequests) = 1
        /\ modelRequests[1].messages.turns = pre.turns \o <<user_message>>

\* A step call is between its start and its end.
Running == pc \in {"llm_structured", "llm_tool_call", "chosen_tool"}

\* C18: every call to step that is answered ends, and ends once: the outcome is
\* set exactly when the call ends and is not changed until the next call starts;
\* the tool list and the context are never changed, so that only the conversation
\* is carried to the next call.
C18_StepEndsExactlyOnce ==
    /\ [][/\ tools' = tools
          /\ context' = context
          /\ (Running /\ pc' = "done") => (result = NoResult /\ result' # NoResult)
          /\ (Running /\ pc' # "done") => (pc' \in {"llm_tool_call", "chosen_tool"}
                                           /\ result' = NoResult)
          /\ (pc = "done" /\ result' # result) => (pc' = "llm_structured"
                                                   /\ result' = NoResult)]_vars
    /\ [](pc = "done" <=> result # NoResult)
    /\ (Running ~> pc = "done")

\* A second call has ended, by raising out of the handler, with the tool list
\* and the context as they were constructed.
C18_Witness ==
    /\ Ended
    /\ stepNo = 2
    /\ result.kind = "raised"
    /\ handlerInvoked
    /\ tools = <<echo_instance, tell_joke>>
    /\ context = "SimpleContext"

\* ---------------------------------------------------------------------------
\* Properties of concurrent step calls (specification SpecSteps)
\* ---------------------------------------------------------------------------
\* The two tasks call step on different agents.
DifferentAgents == st_self[1] # st_self[2]

\* What task t's calls have given so far is what they give when run alone.
AsAlone(t) ==
    /\ st_conversation[self(t)] = st_alone[t].conversation
    /\ st_frame[t].requests = st_alone[t].requests
    /\ st_frame[t].result = st_alone[t].result

\* C15: steps run on two agents that hold different conversations are
\* independent: under every interleaving at the suspension points, each agent's
\* conversation, its model requests and its step outcomes equal those of its
\* steps run alone, and no step changes the shared tool list.
C15_DifferentAgentsAreIndependent ==
    /\ [](DifferentAgents => \A t \in Tasks : AsAlone(t))
    /\ [][st_tools' = st_tools]_vars

\* Both tasks are suspended inside a step call on different agents, the first
\* in its second call after a call that kept its turns.
C15_Witness ==
    /\ DifferentAgents
    /\ st_frame[1].pc = "chosen_tool"
    /\ st_frame[1].calls = 2
    /\ Len(st_conversation[st_self[1]].turns) = 4
    /\ st_frame[2].pc = "llm_tool_call"

\* ---------------------------------------------------------------------------
\* Properties of overlapping step calls on one agent (specification SpecShared)
\* ---------------------------------------------------------------------------
\* The history of the agent both tasks call.
SharedTurns == st_conversation["agent1"].turns

\* Every step's turns are contiguous: user and assistant turns alternate.
Contiguous ==
    \A i \in 1..Len(SharedTurns) :
        SharedTurns[i].kind = (IF i % 2 = 1 THEN "user" ELSE "assistant")

\* Task t's call leaves through an exception in this step.
Fails(t) ==
    /\ st_frame[t].pc \in Suspended
    /\ st_frame'[t].pc = "done"
    /\ st_frame'[t].result.kind = "raised"

GeminiEnded == g_pc = "done"

\* The parts of the response the call got.
GeminiParts == parts_of(g_response)

\* The positions of the function calls among the parts.
FunctionCalls == {i \in 1..Len(GeminiParts) : GeminiParts[i].kind = "function_call"}

RegisteredWithGemini == {g_tools[i].name : i \in 1..Len(g_tools)}

\* The function calls that name a tool nobody registered.
UnregisteredCalls == {i \in FunctionCalls : GeminiParts[i].name \notin RegisteredWithGemini}

\* The function calls whose args json.loads decodes.
DecodableCalls == {i \in FunctionCalls : json_loads(GeminiParts[i].args).ok}

\* The history is the one before the call plus entries of exactly these roles.
HistoryGrewBy(roles) ==
    /\ Len(g_history) = Len(g_pre) + Len(roles)
    /\ \A i \in 1..Len(g_pre) : g_history[i] = g_pre[i]
    /\ \A i \in 1..Len(roles) : g_history[Len(g_pre) + i].role = roles[i]

\* What a call leaves in the history: after a raise the user entry alone, after
\* a return the user entry, the assistant entry and, if some tool ran, one tool
\* entry.
HistoryAfterCall ==
    /\ g_result.kind = "raised" => HistoryGrewBy(<<"user">>)
    /\ g_result.kind = "returned" =>
          IF g_result.tool_results # <<>>
          THEN HistoryGrewBy(<<"user", "assistant", "tool">>)
          ELSE HistoryGrewBy(<<"user", "assistant">>)

\* C27 as stated: function calls naming an unregistered tool are skipped without
\* any error, adding nothing to tool_calls or tool_results; a failed call leaves
\* the user entry and no assistant entry; a successful call adds user, assistant
\* and, only if some tool ran, one tool entry.
C27_UnregisteredCallIsSkipped ==
    GeminiEnded =>
        /\ (g_response # NoGeminiResponse /\ FunctionCalls = UnregisteredCalls) =>
              /\ g_result.kind = "returned"
              /\ g_result.tool_calls = <<>>
              /\ g_result.tool_results = <<>>
        /\ HistoryAfterCall

\* C27 as amended: function calls naming an unregistered tool are skipped without
\* any error provided their args decode as JSON, since json.loads runs before
\* the lookup; no unregistered name ever enters tool_calls or tool_results; a
\* decoding failure, validation failure or handler exception is what the call
\* raises; the history is left as stated.
C27_DecodableUnregisteredCallIsSkipped ==
    GeminiEnded =>
        /\ (/\ g_response # NoGeminiResponse
            /\ FunctionCalls = UnregisteredCalls
            /\ FunctionCalls \subseteq DecodableCalls) =>
              /\ g_result.kind = "returned"
              /\ g_result.tool_calls = <<>>
              /\ g_result.tool_results = <<>>
        /\ \A i \in 1..Len(g_result.tool_calls) :
              g_result.tool_calls[i].name \in RegisteredWithGemini
        /\ Len(g_result.tool_results) = Len(g_result.tool_calls)
        /\ (g_result.kind = "raised" /\ g_response # NoGeminiResponse) =>
              g_result.error \in {"JSONDecodeError", "ValidationError", "ValueError"}
        /\ HistoryAfterCall

\* A second call has returned after skipping a call of an unregistered tool and
\* running the calculator: the history grew by user, assistant and tool entries.
C27_Witness ==
    /\ GeminiEnded
    /\ g_sends = 2
    /\ Len(GeminiParts) = 2
    /\ GeminiParts[1] = FunctionCallPart("search", MockArguments)
    /\ GeminiParts[2] = FunctionCallPart("calculator", MockArguments)
    /\ g_result.kind = "returned"
    /\ Len(g_result.tool_calls) = 1
    /\ HistoryGrewBy(<<"user", "assistant", "tool">>)

\* ---------------------------------------------------------------------------
\* The other specifications
\* ---------------------------------------------------------------------------
InitRegistry == AgentIdle /\ TcIdle /\ RegInit /\ ToolIdle /\ StepsIdle /\ GeminiIdle

SpecRegistry == InitRegistry /\ [][NextRegistry]_vars

InitTool == AgentIdle /\ TcIdle /\ RegIdle /\ ToolInit /\ StepsIdle /\ GeminiIdle

SpecTool == InitTool /\ [][NextTool]_vars

InitToolCall == AgentIdle /\ TcInit /\ RegIdle /\ ToolIdle /\ StepsIdle /\ GeminiIdle

SpecToolCall == InitToolCall /\ [][NextToolCall]_vars

InitSteps == AgentIdle /\ TcIdle /\ RegIdle /\ ToolIdle /\ StepsInit /\ GeminiIdle

SpecSteps == InitSteps /\ [][NextSteps]_vars

InitShared == AgentIdle /\ TcIdle /\ RegIdle /\ ToolIdle /\ SharedInit /\ GeminiIdle

SpecShared == InitShared /\ [][NextSteps]_vars

InitGemini == AgentIdle /\ TcIdle /\ RegIdle /\ ToolIdle /\ StepsIdle /\ GeminiInit

SpecGemini == InitGemini /\ [][NextGemini]_vars

Init == AgentInit /\ TcIdle /\ RegIdle /\ ToolIdle /\ StepsIdle /\ GeminiIdle

Next == AgentNext

Spec == Init /\ [][Next]_vars

\* The collaborators answer: an awaited model request or handler call returns
\* or raises.
Answer ==
    \/ \E e \in ModelErrors : DecisionRaises(e)
    \/ \E t \in Texts : DecisionNoTool(t)
    \/ \E t \in Texts, n \in ToolNames : DecisionUnknownTool(t, n)
    \/ \E t \in Texts, n \in ToolNames : DecisionTool(t, n)
    \/ \E e \in ToolCallErrors : ParametersRaise(e)
    \/ \E a \in Payloads : ParametersInvalid(a)
    \/ \E a \in Payloads : ParametersValid(a)
    \/ \E x \in HandlerExceptions : HandlerRaises(x)
    \/ \E v \in HandlerValues : HandlerReturns(v)

SpecFair == Spec /\ WF_vars(Answer)

====
